---- MODULE Spec2Model ----
(***************************************************************************)
(* Model of the 3d-text-plugin-server /generate handlers: the pixel buffer *)
(* of one rendered glyph is binarized and turned into bars (run extractor, *)
(* greedy mesher) or into meshes and outlines (findContours ->             *)
(* simplifyContour -> identifyHoles -> earcut assembly).                   *)
(*                                                                         *)
(* The canvas is scaled down from canvasSize x canvasSize (256) to         *)
(* GridW x GridH pixels; a pixel is the sum r + g + b of its channels.     *)
(* Points are <<x, y>> pairs, flat indices are y * width + x as in the     *)
(* source.                                                                 *)
(***************************************************************************)
EXTENDS Integers, Sequences, FiniteSets, TLC

\* ------------------------------------------------------------------ bounds
GridW == 3
GridH == 3

NCells == GridW * GridH
Cells == 0 .. (NCells - 1)

\* The canvas holds black text (#000000) on a white background (#ffffff).
Pixels == { 0, 255 + 255 + 255 }
\* parseInt(threshold) || 120: the threshold of a request that names none.
DefaultThreshold == 120

VARIABLES
    data,        \* imageData.data: flat index -> r + g + b
    threshold,   \* the clamped threshold of the request
    pc,          \* position of the request: "idle", "scan", "trace", ...
    bars,        \* response field bars of the bar strategies
    grid,        \* findContours: grid (Uint8Array, 0/1)
    visited,     \* findContours: visited (Uint8Array, 0/1)
    idx,         \* findContours: raster position y * width + x of the scan
    contours,    \* findContours: contours kept so far
    tx, ty, dir, \* traceBoundary: x, y, dir
    start,       \* traceBoundary: <<startX, startY>>
    contour,     \* traceBoundary: contour
    dirs,        \* history: dir at the push of each point of contour
    simplified,  \* handler: simplified
    polys,       \* identifyHoles: polys, sorted and linked
    hierarchy,   \* identifyHoles: hierarchy, as positions in polys
    meshes,      \* handler: allTriangles
    outlines,    \* handler: allOutlines
    argPoints,      \* simplifyContour: argument points
    argEpsilon,     \* simplifyContour: argument epsilon, times EpsDen
    retKeep,        \* simplifyContour: keep[] flags when the loop has ended
    retResult,      \* simplifyContour: returned array
    variant,        \* which /generate handler serves the request
    reqThreshold,   \* req.body.threshold: << >> when absent, << t >> otherwise
    response        \* the body handed to res.json, << >> before it is sent

vars == << data, threshold, pc, bars, grid, visited, idx, contours,
           tx, ty, dir, start, contour, dirs,
           simplified, polys, hierarchy, meshes, outlines,
           argPoints, argEpsilon, retKeep, retResult,
           variant, reqThreshold, response >>

traceVars == << grid, visited, idx, contours, tx, ty, dir, start, contour, dirs >>
ringVars == << simplified, polys, hierarchy, meshes, outlines >>
callVars == << argPoints, argEpsilon, retKeep, retResult >>
reqVars == << variant, reqThreshold, response >>

\* ------------------------------------------------------------- binarizer
\* The comparison turned round: brightness > threshold.
IsOnAbove(d, t, i) == d[i] > 3 * t

\* The comparison made inclusive: brightness <= threshold.
IsOnInclusive(d, t, i) == d[i] <= 3 * t

\* brightness = (r + g + b) / 3 < threshold, over the integers.
IsOn(d, t, i) == d[i] < 3 * t

XOf(i) == i % GridW
YOf(i) == i \div GridW

Bar(bx, by, w, h) == [x |-> bx, y |-> by, width |-> w, height |-> h]

\* Cells a bar covers.
BarCells(b) ==
    { (b.y + j) * GridW + (b.x + k) : k \in 0 .. (b.width - 1), j \in 0 .. (b.height - 1) }

\* ---------------------------------------------------------- run extractor
\* An off-by-one slip in the width of a run.
RunWidthExclusive(runStart, runEnd) == runEnd - runStart

\* width: runEnd - runStart + 1
RunWidth(runStart, runEnd) == runEnd - runStart + 1

\* The inner loop over x of one row, then the flush at the row's end.
RECURSIVE RunRow(_, _, _, _, _, _)
RunRow(d, t, y, x, runStart, acc) ==
    IF x = GridW
    THEN IF runStart # -1
         THEN Append(acc, Bar(runStart, y, RunWidth(runStart, GridW - 1), 1))
         ELSE acc
    ELSE LET isOn == IsOn(d, t, y * GridW + x) IN
         IF isOn /\ runStart = -1
         THEN RunRow(d, t, y, x + 1, x, acc)
         ELSE IF ~isOn /\ runStart # -1
              THEN RunRow(d, t, y, x + 1, -1,
                          Append(acc, Bar(runStart, y, RunWidth(runStart, x - 1), 1)))
              ELSE RunRow(d, t, y, x + 1, runStart, acc)

RECURSIVE RunRows(_, _, _, _)
RunRows(d, t, y, acc) ==
    IF y = GridH THEN acc
    ELSE RunRows(d, t, y + 1, RunRow(d, t, y, 0, -1, acc))

RunBars(d, t) == RunRows(d, t, 0, << >>)

\* --------------------------------------------------------- greedy mesher
\* grid[y][x] at the flat index y * canvasSize + x.
Binarize(d, t) == [i \in Cells |-> IsOn(d, t, i)]

\* A. while (x + width < canvasSize && grid[y][x + width]) width++
RECURSIVE GrowWidth(_, _, _, _)
GrowWidth(g, x, y, width) ==
    IF x + width < GridW /\ g[y * GridW + x + width]
    THEN GrowWidth(g, x, y, width + 1)
    ELSE width

\* The strip below is judged by its first cell alone.
NextRowMatchFirstCell(g, x, y, width, height) == g[(y + height) * GridW + x]

\* the for-k loop: nextRowMatch
NextRowMatch(g, x, y, width, height) ==
    \A k \in 0 .. (width - 1) : g[(y + height) * GridW + x + k]

\* The height loop written as an if: the rectangle grows by one row at most.
GrowHeightOnce(g, x, y, width, height) ==
    IF y + height < GridH /\ NextRowMatch(g, x, y, width, height)
    THEN height + 1
    ELSE height

\* B. while (y + height < canvasSize) { if (!nextRowMatch) break; height++ }
RECURSIVE GrowHeight(_, _, _, _, _)
GrowHeight(g, x, y, width, height) ==
    IF y + height < GridH /\ NextRowMatch(g, x, y, width, height)
    THEN GrowHeight(g, x, y, width, height + 1)
    ELSE height

\* The clearing loop run over the first row of the rectangle only.
ClearRectFirstRow(g, b) ==
    [i \in Cells |-> IF i \in BarCells(Bar(b.x, b.y, b.width, 1)) THEN FALSE ELSE g[i]]

\* D. clear the recorded rectangle
ClearRect(g, b) == [i \in Cells |-> IF i \in BarCells(b) THEN FALSE ELSE g[i]]

\* The double loop over y, x as one loop over the raster index.
RECURSIVE GreedyScan(_, _, _)
GreedyScan(g, i, acc) ==
    IF i = NCells THEN acc
    ELSE IF g[i]
         THEN LET x == XOf(i)
                  y == YOf(i)
                  width == GrowWidth(g, x, y, 0)
                  height == GrowHeight(g, x, y, width, 1)
                  b == Bar(x, y, width, height)
              IN GreedyScan(ClearRect(g, b), i + 1, Append(acc, b))
         ELSE GreedyScan(g, i + 1, acc)

GreedyBars(d, t) == GreedyScan(Binarize(d, t), 0, << >>)

\* --------------------------------------------------------- contour tracer
dx == << 0, 1, 1, 1, 0, -1, -1, -1 >>
dy == << -1, -1, 0, 1, 1, 1, 0, -1 >>

InBounds(nx, ny) == nx >= 0 /\ nx < GridW /\ ny >= 0 /\ ny < GridH

\* The for-i loop without the ink test: the first neighbour in bounds.
RECURSIVE SearchInBounds(_, _, _, _, _)
SearchInBounds(g, x, y, startDir, i) ==
    IF i = 8 THEN -1
    ELSE LET d == (startDir + i) % 8
         IN IF InBounds(x + dx[d + 1], y + dy[d + 1])
            THEN d
            ELSE SearchInBounds(g, x, y, startDir, i + 1)

\* The for-i loop of traceBoundary from i on: the first direction
\* d = (startDir + i) % 8 whose neighbour is in bounds and ink (found, break),
\* or -1 when the loop runs out (found stays false).
RECURSIVE Search(_, _, _, _, _)
Search(g, x, y, startDir, i) ==
    IF i = 8 THEN -1
    ELSE LET d == (startDir + i) % 8
             nx == x + dx[d + 1]
             ny == y + dy[d + 1]
         IN IF InBounds(nx, ny) /\ g[ny * GridW + nx] = 1
            THEN d
            ELSE Search(g, x, y, startDir, i + 1)

\* const startDir = (dir + 6) % 8, then the for-i loop.
FindNext(g, x, y, d0) == Search(g, x, y, (d0 + 6) % 8, 0)

\* if (contour.length > 5) contours.push(contour)
KeepContour(cs, c) == IF Len(c) > 5 THEN Append(cs, c) ELSE cs

\* ----------------------------------------------------- polyline simplifier
\* A tolerance epsilon is handed around as the integer e = EpsDen * epsilon;
\* distances are compared through their squares, so no root is taken.
EpsDen == 4

Abs(n) == IF n < 0 THEN -n ELSE n

\* points[i] of the source (0-based).
At(points, i) == points[i + 1]

\* A = b.y - a.y, B = a.x - b.x, C = b.x * a.y - b.y * a.x
LineA(a, b) == b[2] - a[2]
LineB(a, b) == a[1] - b[1]
LineC(a, b) == b[1] * a[2] - b[2] * a[1]

\* distDenom squared: A*A + B*B
DenomSq(a, b) == LineA(a, b) * LineA(a, b) + LineB(a, b) * LineB(a, b)

\* distDenom > 0.000001: over integer points the denominator is 0 or >= 1.
ChordIsLine(a, b) == DenomSq(a, b) > 0

\* The distance without the branch for a chord of length 0: the division
\* by distDenom = 0 gives NaN, which no comparison d > dmax accepts.
DistKeyNoFallback(a, b, p) ==
    IF LineA(a, b) # 0 \/ LineB(a, b) # 0
    THEN Abs(LineA(a, b) * p[1] + LineB(a, b) * p[2] + LineC(a, b))
    ELSE 0

\* The distance d of p in a range with the chord a-b, as the number the
\* comparisons d > dmax order it by: |A*p.x + B*p.y + C| (d times distDenom)
\* on a line chord, (p.x - a.x)^2 + (p.y - a.y)^2 (d squared) otherwise.
DistKey(a, b, p) ==
    IF ChordIsLine(a, b)
    THEN Abs(LineA(a, b) * p[1] + LineB(a, b) * p[2] + LineC(a, b))
    ELSE (p[1] - a[1]) * (p[1] - a[1]) + (p[2] - a[2]) * (p[2] - a[2])

\* d > epsilon with distDenom = A*A + B*B, the square root forgotten.
ExceedsEpsNoSqrt(a, b, key, e) ==
    IF ChordIsLine(a, b)
    THEN EpsDen * key > e * DenomSq(a, b)
    ELSE EpsDen * EpsDen * key > e * e

\* d > epsilon for a distance given by its key.
ExceedsEps(a, b, key, e) ==
    IF ChordIsLine(a, b)
    THEN EpsDen * EpsDen * key * key > e * e * DenomSq(a, b)
    ELSE EpsDen * EpsDen * key > e * e

\* The for-i loops over startIndex + 1 .. endIndex - 1: <<index, dmax>>
\* with dmax as its key; if (d > dmax) { index = i; dmax = d; }
RECURSIVE FarthestFrom(_, _, _, _, _, _)
FarthestFrom(points, startIndex, endIndex, i, index, dmax) ==
    IF i >= endIndex THEN << index, dmax >>
    ELSE LET d == DistKey(At(points, startIndex), At(points, endIndex), At(points, i))
         IN IF d > dmax
            THEN FarthestFrom(points, startIndex, endIndex, i + 1, i, d)
            ELSE FarthestFrom(points, startIndex, endIndex, i + 1, index, dmax)

\* The for-i loop begun one point late, at startIndex + 2.
FarthestSkipFirst(points, startIndex, endIndex) ==
    FarthestFrom(points, startIndex, endIndex, startIndex + 2, startIndex, 0)

Farthest(points, startIndex, endIndex) ==
    FarthestFrom(points, startIndex, endIndex, startIndex + 1, startIndex, 0)

\* if (dmax > epsilon): the range is split at index.
Splits(points, startIndex, endIndex, e) ==
    ExceedsEps(At(points, startIndex), At(points, endIndex),
               Farthest(points, startIndex, endIndex)[2], e)

\* while (stack.length > 0): pop endIndex, pop startIndex, split or drop.
RECURSIVE SimplifyLoop(_, _, _, _)
SimplifyLoop(points, e, stack, keep) ==
    IF Len(stack) = 0 THEN keep
    ELSE LET n == Len(stack)
             endIndex == stack[n]
             startIndex == stack[n - 1]
             rest == SubSeq(stack, 1, n - 2)
             index == Farthest(points, startIndex, endIndex)[1]
         IN IF Splits(points, startIndex, endIndex, e)
            THEN SimplifyLoop(points, e,
                              rest \o << startIndex, index, index, endIndex >>,
                              [keep EXCEPT ![index] = 1])
            ELSE SimplifyLoop(points, e, rest, keep)

\* The flags with keep[len - 1] = 1 forgotten.
KeepFlagsFirstOnly(points, e) ==
    LET len == Len(points)
    IN SimplifyLoop(points, e, << 0, len - 1 >>,
                    [i \in 0 .. (len - 1) |-> IF i = 0 THEN 1 ELSE 0])

\* keep after the loop: keep[0] = keep[len - 1] = 1, stack = [0, len - 1].
KeepFlags(points, e) ==
    LET len == Len(points)
    IN SimplifyLoop(points, e, << 0, len - 1 >>,
                    [i \in 0 .. (len - 1) |-> IF i = 0 \/ i = len - 1 THEN 1 ELSE 0])

\* for (i < len) if (keep[i]) result.push(points[i])
RECURSIVE Collect(_, _, _, _)
Collect(points, keep, i, out) ==
    IF i = Len(points) THEN out
    ELSE Collect(points, keep, i + 1,
                 IF keep[i] = 1 THEN Append(out, At(points, i)) ELSE out)

simplifyContour(points, e) ==
    IF Len(points) <= 2 THEN points
    ELSE Collect(points, KeepFlags(points, e), 0, << >>)

\* ------------------------------------------------ ring hierarchy classifier
\* The shoelace sum of a ring, before area /= 2.
RECURSIVE Shoelace(_, _)
Shoelace(c, i) ==
    IF i = Len(c) THEN 0
    ELSE LET j == (i + 1) % Len(c)
         IN (At(c, i)[1] * At(c, j)[2] - At(c, i)[2] * At(c, j)[1]) + Shoelace(c, i + 1)

\* A poly of identifyHoles; area2 is twice its area, Math.abs of the sum.
\* children holds the positions in polys of the polys pushed to it.
Poly(c) == [points |-> c, area2 |-> Abs(Shoelace(c, 0)), isHole |-> FALSE, children |-> << >>]

\* .sort((a, b) => b.area - a.area): Array.prototype.sort is stable, so a
\* poly goes behind every poly placed before it whose area is not smaller.
RECURSIVE InsertSorted(_, _, _)
InsertSorted(sorted, p, k) ==
    IF k > Len(sorted) \/ sorted[k].area2 < p.area2
    THEN SubSeq(sorted, 1, k - 1) \o << p >> \o SubSeq(sorted, k, Len(sorted))
    ELSE InsertSorted(sorted, p, k + 1)

RECURSIVE SortPolys(_, _, _)
SortPolys(cs, i, sorted) ==
    IF i > Len(cs) THEN sorted
    ELSE SortPolys(cs, i + 1, InsertSorted(sorted, Poly(cs[i]), 1))

\* One edge of the ray cast: polygon[i] to polygon[j], with
\* p.x < (xj - xi) * (p.y - yi) / (yj - yi) + xi multiplied out by yj - yi.
Intersect(p, pi, pj) ==
    /\ (pi[2] > p[2]) # (pj[2] > p[2])
    /\ IF pj[2] - pi[2] > 0
       THEN (p[1] - pi[1]) * (pj[2] - pi[2]) < (pj[1] - pi[1]) * (p[2] - pi[2])
       ELSE (p[1] - pi[1]) * (pj[2] - pi[2]) > (pj[1] - pi[1]) * (p[2] - pi[2])

\* The ray cast with let inside = true: an even count of crossings is inside.
isPointInPolygonFromTrue(p, polygon) ==
    LET n == Len(polygon)
        crossing == { i \in 0 .. (n - 1) :
                        Intersect(p, At(polygon, i), At(polygon, (i + n - 1) % n)) }
    IN Cardinality(crossing) % 2 = 0

isPointInPolygon(p, polygon) ==
    LET n == Len(polygon)
        crossing == { i \in 0 .. (n - 1) :
                        Intersect(p, At(polygon, i), At(polygon, (i + n - 1) % n)) }
    IN Cardinality(crossing) % 2 = 1

\* The for-j loop: parent is overwritten by every j < i whose polygon holds
\* ps[i].points[0]; 0 stands for null.
RECURSIVE FindParent(_, _, _, _)
FindParent(ps, i, j, parent) ==
    IF j >= i THEN parent
    ELSE FindParent(ps, i, j + 1,
                    IF isPointInPolygon(At(ps[i].points, 0), ps[j].points)
                    THEN j ELSE parent)

\* The child takes its parent's flag instead of the inverse.
AttachSameFlag(ps, i, parent) ==
    [ps EXCEPT ![i].isHole = ps[parent].isHole,
               ![parent].children = Append(@, i)]

\* if (parent) { isHole = !parent.isHole; parent.children.push(ps[i]) }
Attach(ps, i, parent) ==
    [ps EXCEPT ![i].isHole = ~ps[parent].isHole,
                  ![parent].children = Append(@, i)]

\* The for-i loop: <<polys, hierarchy>>, hierarchy the positions of the roots.
RECURSIVE Classify(_, _, _)
Classify(ps, i, roots) ==
    IF i > Len(ps) THEN << ps, roots >>
    ELSE LET parent == FindParent(ps, i, 1, 0)
         IN IF parent # 0
            THEN Classify(Attach(ps, i, parent), i + 1, roots)
            ELSE Classify(ps, i + 1, Append(roots, i))

identifyHoles(cs) == Classify(SortPolys(cs, 1, << >>), 1, << >>)

\* ------------------------------------------------- triangulation, outlines
\* points.forEach(p => flatData.push(p.x, p.y))
RECURSIVE Flatten(_, _, _)
Flatten(points, i, flat) ==
    IF i > Len(points) THEN flat
    ELSE Flatten(points, i + 1, flat \o << points[i][1], points[i][2] >>)

Outline(points, hole) == [points |-> points, isHole |-> hole]

\* holeIndices.push(indexOffset) moved behind indexOffset += child.points.length
RECURSIVE AddChildrenOffsetAfter(_, _, _, _)
AddChildrenOffsetAfter(ps, children, k, acc) ==
    IF k > Len(children) THEN acc
    ELSE LET child == ps[children[k]]
         IN AddChildrenOffsetAfter(ps, children, k + 1,
                << Flatten(child.points, 1, acc[1]),
                   Append(acc[2], acc[3] + Len(child.points)),
                   acc[3] + Len(child.points),
                   Append(acc[4], Outline(child.points, TRUE)) >>)

\* poly.children.forEach: <<flatData, holeIndices, indexOffset, outlines>>
RECURSIVE AddChildren(_, _, _, _)
AddChildren(ps, children, k, acc) ==
    IF k > Len(children) THEN acc
    ELSE LET child == ps[children[k]]
         IN AddChildren(ps, children, k + 1,
                << Flatten(child.points, 1, acc[1]),
                   Append(acc[2], acc[3]),
                   acc[3] + Len(child.points),
                   Append(acc[4], Outline(child.points, TRUE)) >>)

\* The body of hierarchy.forEach for one root: the mesh handed to earcut
\* and the outlines.  A mesh is the pair of arguments earcut is called with;
\* its triangle indices are the library's answer and are left out.
IslandOf(ps, root, outs) ==
    LET poly == ps[root]
        acc == AddChildren(ps, poly.children, 1,
                   << Flatten(poly.points, 1, << >>), << >>, Len(poly.points),
                      Append(outs, Outline(poly.points, FALSE)) >>)
    IN << [vertices |-> acc[1], holeIndices |-> acc[2]], acc[4] >>

\* allTriangles.push(...) for the island of one root.
PushMesh(ms, m) == Append(ms, m)

\* hierarchy.forEach: <<allTriangles, allOutlines>>
RECURSIVE AssembleFrom(_, _, _, _, _)
AssembleFrom(ps, roots, k, ms, outs) ==
    IF k > Len(roots) THEN << ms, outs >>
    ELSE LET isl == IslandOf(ps, roots[k], outs)
         IN AssembleFrom(ps, roots, k + 1, PushMesh(ms, isl[1]), isl[2])

AssembleAll(ps, roots) == AssembleFrom(ps, roots, 1, << >>, << >>)

\* rawContours.map(c => simplifyContour(c, 1.5))
HandlerEps == 6
SimplifyAll(cs) == [k \in 1 .. Len(cs) |-> simplifyContour(cs[k], HandlerEps)]

\* ------------------------------------------------------------------ state
NoTrace ==
    /\ grid = [i \in Cells |-> 0]
    /\ visited = [i \in Cells |-> 0]
    /\ idx = 0
    /\ contours = << >>
    /\ tx = 0 /\ ty = 0 /\ dir = 0
    /\ start = << 0, 0 >>
    /\ contour = << >>
    /\ dirs = << >>

NoRings ==
    /\ polys = << >>
    /\ hierarchy = << >>
    /\ meshes = << >>
    /\ outlines = << >>

NoCall ==
    /\ argPoints = << >>
    /\ argEpsilon = 0
    /\ retKeep = << >>
    /\ retResult = << >>

NoRequest ==
    /\ variant = "none"
    /\ reqThreshold = << >>
    /\ response = << >>

\* A request arrives: the canvas holds any glyph.
Init ==
    /\ data \in [Cells -> Pixels]
    /\ threshold = DefaultThreshold
    /\ pc = "idle"
    /\ bars = << >>
    /\ NoTrace
    /\ simplified = << >>
    /\ NoRings
    /\ NoCall
    /\ NoRequest

\* GET/POST /generate, run-length variant (server.js generateTextBars).
RunExtractor ==
    /\ pc = "idle"
    /\ bars' = RunBars(data, threshold)
    /\ pc' = "runs"
    /\ UNCHANGED << data, threshold >>
    /\ UNCHANGED << traceVars, ringVars, callVars, reqVars >>

\* GET/POST /generate, greedy variant (part_001 generateTextBars).
GreedyMesher ==
    /\ pc = "idle"
    /\ bars' = GreedyBars(data, threshold)
    /\ pc' = "greedy"
    /\ UNCHANGED << data, threshold >>
    /\ UNCHANGED << traceVars, ringVars, callVars, reqVars >>

\* findContours: binarize, allocate visited, enter the raster scan.
FindContours ==
    /\ pc = "idle"
    /\ grid' = [i \in Cells |-> IF IsOn(data, threshold, i) THEN 1 ELSE 0]
    /\ visited' = [i \in Cells |-> 0]
    /\ contours' = << >>
    /\ idx' = 0
    /\ pc' = "scan"
    /\ UNCHANGED << data, threshold, bars, tx, ty, dir, start, contour, dirs >>
    /\ UNCHANGED << ringVars, callVars, reqVars >>

\* The scan test without visited[idx] === 0: every ink cell stops the scan.
UnvisitedAnyInk(g, v, i) == { j \in i .. (NCells - 1) : g[j] = 1 }

\* The raster scan of findContours from position i on: the cells it stops at,
\* if (grid[idx] === 1 && visited[idx] === 0).
Unvisited(g, v, i) == { j \in i .. (NCells - 1) : g[j] = 1 /\ v[j] = 0 }

\* The scan advances to the next unvisited ink cell and calls
\* traceBoundary(x, y, ...) on it.
ScanTrace ==
    /\ pc = "scan"
    /\ Unvisited(grid, visited, idx) # {}
    /\ LET j == CHOOSE k \in Unvisited(grid, visited, idx) :
                   \A m \in Unvisited(grid, visited, idx) : k <= m
       IN /\ idx' = j
          /\ tx' = XOf(j) /\ ty' = YOf(j) /\ dir' = 0
          /\ start' = << XOf(j), YOf(j) >>
    /\ contour' = << >>
    /\ dirs' = << >>
    /\ pc' = "trace"
    /\ UNCHANGED << data, threshold, bars, grid, visited, contours >>
    /\ UNCHANGED << ringVars, callVars, reqVars >>

\* The scan reaches the end of the raster: findContours returns contours
\* and the handler simplifies them.
ScanEnd ==
    /\ pc = "scan"
    /\ Unvisited(grid, visited, idx) = {}
    /\ idx' = NCells
    /\ simplified' = SimplifyAll(contours)
    /\ pc' = "simplified"
    /\ UNCHANGED << data, threshold, bars, grid, visited, contours,
                    tx, ty, dir, start, contour, dirs >>
    /\ UNCHANGED << polys, hierarchy, meshes, outlines, callVars, reqVars >>

\* The walk has come back to a loop state <<x, y, dir>> it was in before.
\* The body is a function of that state, so it repeats from here for ever;
\* the model stops following the walk at this point.
Looping ==
    /\ pc = "trace"
    /\ \E k \in 1 .. Len(contour) : contour[k] = << tx, ty >> /\ dirs[k] = dir

\* One iteration of the do-while: push, mark visited, look for the next ink
\* neighbour.  The loop goes on while the walk has moved and is not back at
\* the start cell; otherwise traceBoundary returns and findContours keeps
\* the contour if it is long enough and resumes the scan behind the cell.
TraceStep ==
    /\ pc = "trace"
    /\ ~Looping
    /\ contour' = Append(contour, << tx, ty >>)
    /\ visited' = [visited EXCEPT ![ty * GridW + tx] = 1]
    /\ dirs' = Append(dirs, dir)
    /\ LET d == FindNext(grid, tx, ty, dir)
           nx == IF d = -1 THEN tx ELSE tx + dx[d + 1]
           ny == IF d = -1 THEN ty ELSE ty + dy[d + 1]
       IN /\ tx' = nx /\ ty' = ny
          /\ dir' = IF d = -1 THEN dir ELSE d
          /\ IF d # -1 /\ << nx, ny >> # start
             THEN UNCHANGED << pc, idx, contours >>
             ELSE /\ contours' = KeepContour(contours, contour')
                  /\ idx' = idx + 1
                  /\ pc' = "scan"
    /\ UNCHANGED << data, threshold, bars, grid, start >>
    /\ UNCHANGED << ringVars, callVars, reqVars >>

\* const hierarchy = identifyHoles(simplified), hierarchy.forEach(...) and
\* res.json({meshes, outlines}).
Reconstruct ==
    /\ pc = "simplified"
    /\ LET h == identifyHoles(simplified)
           m == AssembleAll(h[1], h[2])
       IN /\ polys' = h[1]
          /\ hierarchy' = h[2]
          /\ meshes' = m[1]
          /\ outlines' = m[2]
    /\ pc' = "done"
    /\ UNCHANGED << data, threshold, bars, simplified >>
    /\ UNCHANGED << traceVars, callVars, reqVars >>

\* The contour variant of the server (part_000, findContours onwards).
Next ==
    \/ FindContours
    \/ ScanTrace
    \/ ScanEnd
    \/ TraceStep
    \/ Reconstruct

Spec == Init /\ [][Next]_vars

\* The bar variants of the server (server.js, part_001 generateTextBars).
NextBars ==
    \/ RunExtractor
    \/ GreedyMesher

SpecBars == Init /\ [][NextBars]_vars

\* ------------------------------------------- simplifyContour on any ring
MaxCoord == 1
MaxPoints == 4

Lattice == (0 .. MaxCoord) \X (0 .. MaxCoord)
RingInputs == UNION { [1 .. n -> Lattice] : n \in 2 .. MaxPoints }
\* argEpsilon = 0, 0.5, 0.75, 1, 1.5 (the handler's)
Tolerances == { 0, 2, 3, 4, HandlerEps }

InitSimplify ==
    /\ data = [i \in Cells |-> 255 + 255 + 255]
    /\ threshold = DefaultThreshold
    /\ pc = "call"
    /\ bars = << >>
    /\ NoTrace
    /\ simplified = << >>
    /\ NoRings
    /\ argPoints \in RingInputs
    /\ argEpsilon \in Tolerances
    /\ retKeep = << >>
    /\ retResult = << >>
    /\ NoRequest

Simplify ==
    /\ pc = "call"
    /\ retKeep' = IF Len(argPoints) <= 2 THEN << >> ELSE KeepFlags(argPoints, argEpsilon)
    /\ retResult' = simplifyContour(argPoints, argEpsilon)
    /\ pc' = "returned"
    /\ UNCHANGED << data, threshold, bars, argPoints, argEpsilon >>
    /\ UNCHANGED << traceVars, ringVars, reqVars >>

SpecSimplify == InitSimplify /\ [][Simplify]_vars

\* --------------------------------- identifyHoles and assembly on any rings
PoolMax == 4
MaxRings == 3

\* The square ring with corners (lo, lo) and (hi, hi).
Square(lo, hi) == << << lo, lo >>, << hi, lo >>, << hi, hi >>, << lo, hi >> >>
RingPool == { Square(c[1], c[2]) :
               c \in { q \in (0 .. PoolMax) \X (0 .. PoolMax) : q[1] < q[2] } }
\* The rings of one request: each is traced from a start cell that no
\* earlier trace has visited, so no two of them begin at the same point.
RingLists ==
    { q \in UNION { [1 .. n -> RingPool] : n \in 0 .. MaxRings } :
        \A i, j \in 1 .. Len(q) : i # j => q[i][1] # q[j][1] }

InitHoles ==
    /\ data = [i \in Cells |-> 255 + 255 + 255]
    /\ threshold = DefaultThreshold
    /\ pc = "simplified"
    /\ bars = << >>
    /\ NoTrace
    /\ simplified \in RingLists
    /\ NoRings
    /\ NoCall
    /\ NoRequest

SpecHoles == InitHoles /\ [][Reconstruct]_vars

\* ------------------------------ one glyph binarized at several thresholds
\* The first BinCells cells of the canvas are black, white, or of mean
\* brightness DefaultThreshold; the rest is white.
BinCells == 6
BinPixels == { 0, 3 * DefaultThreshold, 255 + 255 + 255 }
BinThresholds == { 0, DefaultThreshold, DefaultThreshold + 1 }

InitBinarize ==
    /\ data \in { [i \in Cells |-> IF i < BinCells THEN f[i] ELSE 255 + 255 + 255] :
                    f \in [0 .. (BinCells - 1) -> BinPixels] }
    /\ threshold \in BinThresholds
    /\ pc = "idle"
    /\ bars = << >>
    /\ NoTrace
    /\ simplified = << >>
    /\ NoRings
    /\ NoCall
    /\ NoRequest

\* The same glyph is requested again with another threshold: findContours
\* binarizes the same pixel buffer anew.
FindContoursAgain ==
    /\ pc = "scan"
    /\ idx = 0
    /\ \E t \in BinThresholds \ { threshold } :
           /\ threshold' = t
           /\ grid' = [i \in Cells |-> IF IsOn(data, t, i) THEN 1 ELSE 0]
    /\ visited' = [i \in Cells |-> 0]
    /\ contours' = << >>
    /\ UNCHANGED << data, pc, idx, bars, tx, ty, dir, start, contour, dirs >>
    /\ UNCHANGED << ringVars, callVars, reqVars >>

NextBinarize ==
    \/ RunExtractor \/ GreedyMesher
    \/ FindContours \/ FindContoursAgain
    \/ ScanTrace \/ ScanEnd \/ TraceStep \/ Reconstruct

SpecBinarize == InitBinarize /\ [][NextBinarize]_vars

\* ------------------------------------------- POST /generate: transport
\* Math.min, Math.max
Min(a, b) == IF a < b THEN a ELSE b
Max(a, b) == IF a > b THEN a ELSE b

\* parseInt(threshold) || 120: NaN (no threshold sent) and 0 are both falsy.
parseIntOr(q, dflt) == IF Len(q) = 0 \/ q[1] = 0 THEN dflt ELSE q[1]

\* Math.min(Math.max(parseInt(threshold) || 120, 0), 255)
ThreshValue(q) == Min(Max(parseIntOr(q, DefaultThreshold), 0), 255)

\* The three POST /generate handlers.
Variants == { "bars", "contour", "d3" }

\* error.message of a failure of the core; new Date().toISOString().
Messages == { "canvas failed", "earcut failed" }
Instants == { "t1", "t2" }

\* The body of the catch block of each handler.
ErrorPayload(v, msg, now) ==
    IF v = "bars"
    THEN [success |-> FALSE, error |-> msg, timestamp |-> now]
    ELSE [success |-> FALSE, error |-> msg]

\* The fields of the success body that tell the request's outcome apart;
\* only generateTextBars echoes the threshold and stamps the time.
SuccessPayload(v, t, now) ==
    IF v = "bars"
    THEN [success |-> TRUE, threshold |-> t, timestamp |-> now]
    ELSE [success |-> TRUE]

ReqSpan == 2
ReqThresholds == { << >> } \cup { << t >> : t \in (0 - ReqSpan) .. (255 + ReqSpan) }

InitRequest ==
    /\ data = [i \in Cells |-> 255 + 255 + 255]
    /\ threshold = DefaultThreshold
    /\ pc = "request"
    /\ bars = << >>
    /\ NoTrace
    /\ simplified = << >>
    /\ NoRings
    /\ NoCall
    /\ variant \in Variants
    /\ reqThreshold \in ReqThresholds
    /\ response = << >>

\* The handler runs through: parameters parsed, core run, res.json(result).
PostGenerate ==
    /\ pc = "request"
    /\ threshold' = ThreshValue(reqThreshold)
    /\ \E now \in Instants : response' = SuccessPayload(variant, threshold', now)
    /\ pc' = "responded"
    /\ UNCHANGED << data, bars, variant, reqThreshold >>
    /\ UNCHANGED << traceVars, ringVars, callVars >>

\* The core throws after the parameters are parsed: the catch block answers.
PostGenerateThrows ==
    /\ pc = "request"
    /\ threshold' = ThreshValue(reqThreshold)
    /\ \E msg \in Messages, now \in Instants :
           response' = ErrorPayload(variant, msg, now)
    /\ pc' = "failed"
    /\ UNCHANGED << data, bars, variant, reqThreshold >>
    /\ UNCHANGED << traceVars, ringVars, callVars >>

NextRequest == PostGenerate \/ PostGenerateThrows

SpecRequest == InitRequest /\ [][NextRequest]_vars

\* ================================================================ claims
\* The cells <<x, y>> a bar covers, and the ink cells of the buffer.
Covered(b) == { << b.x + k, b.y + j >> : k \in 0 .. (b.width - 1), j \in 0 .. (b.height - 1) }
Ink == { << XOf(i), YOf(i) >> : i \in { c \in Cells : data[c] < 3 * threshold } }
IsInk(x, y) == << x, y >> \in Ink

\* C1: the rectangles the greedy mesher emits cover exactly the ink cells of
\* the grid as binarized, and no cell lies in two of them.
C1_GreedyExactCover ==
    pc = "greedy" =>
        /\ UNION { Covered(bars[k]) : k \in 1 .. Len(bars) } = Ink
        /\ \A k, m \in 1 .. Len(bars) :
               k # m => Covered(bars[k]) \cap Covered(bars[m]) = {}

\* A glyph the mesher cuts into several rectangles, one of them taller and
\* wider than a cell.
C1_Witness ==
    /\ pc = "greedy"
    /\ Len(bars) >= 2
    /\ \E k \in 1 .. Len(bars) : bars[k].width >= 2 /\ bars[k].height >= 2

\* C2: the runs the run extractor emits cover exactly the ink cells; every
\* run has height 1, the runs of a row are pairwise disjoint, and every run
\* is maximal: the cell left of its start and the cell right of its end are
\* background or outside the row.
C2_RunsExactMaximal ==
    pc = "runs" =>
        /\ UNION { Covered(bars[k]) : k \in 1 .. Len(bars) } = Ink
        /\ \A k \in 1 .. Len(bars) :
               /\ bars[k].height = 1
               /\ bars[k].width >= 1
               /\ ~IsInk(bars[k].x - 1, bars[k].y)
               /\ ~IsInk(bars[k].x + bars[k].width, bars[k].y)
        /\ \A k, m \in 1 .. Len(bars) :
               k # m => Covered(bars[k]) \cap Covered(bars[m]) = {}

\* A row with two runs, one of them reaching the row's end.
C2_Witness ==
    /\ pc = "runs"
    /\ \E k, m \in 1 .. Len(bars) :
           /\ k # m
           /\ bars[k].y = bars[m].y
           /\ bars[m].x + bars[m].width = GridW

\* C3: every traceBoundary call of findContours comes back to its start cell
\* or stops at an isolated pixel, so the strategy runs to completion.  One
\* iteration of the walk is a function of its loop state <<x, y, dir>> over
\* a fixed grid, so the call returns exactly when the walk never re-enters
\* a loop state it has left.
C3_TraceTerminates == ~Looping

\* A ring is closed: a single point, or its first point is one 8-connected
\* step from its last.
Closed(c) ==
    \/ Len(c) = 1
    \/ /\ Abs(c[1][1] - c[Len(c)][1]) <= 1
       /\ Abs(c[1][2] - c[Len(c)][2]) <= 1
       /\ c[1] # c[Len(c)]

OnInk(c) ==
    \A k \in 1 .. Len(c) :
        /\ InBounds(c[k][1], c[k][2])
        /\ grid[c[k][2] * GridW + c[k][1]] = 1

\* C4: every ring traceBoundary returns, kept or dropped by the length
\* filter, is closed and holds only in-bounds cells that are ink in the grid.
C4_RingClosedOnInk ==
    /\ (pc # "trace" /\ contour # << >>) => (Closed(contour) /\ OnInk(contour))
    /\ \A k \in 1 .. Len(contours) : Closed(contours[k]) /\ OnInk(contours[k])

\* traceBoundary has just returned a ring that passes the length filter.
C4_Witness ==
    /\ pc = "scan"
    /\ Len(contour) > 5
    /\ Len(contours) >= 1
    /\ contours[Len(contours)] = contour

\* The vertices of an island: the root's points and its children's.
RECURSIVE ChildPoints(_, _)
ChildPoints(children, k) ==
    IF k > Len(children) THEN 0
    ELSE Len(polys[children[k]].points) + ChildPoints(children, k + 1)

VertexCount(root) == Len(polys[root].points) + ChildPoints(polys[root].children, 1)

\* C5: a root whose vertices, children included, number fewer than 3 gets no
\* mesh; every other root gets one.
C5_DegenerateSkipped ==
    pc = "done" =>
        /\ \A k \in 1 .. Len(meshes) : Len(meshes[k].vertices) >= 2 * 3
        /\ Len(meshes) =
               Cardinality({ k \in 1 .. Len(hierarchy) : VertexCount(hierarchy[k]) >= 3 })

\* How often v occurs in the sequence q.
Count(q, v) == Cardinality({ k \in 1 .. Len(q) : q[k] = v })

Roots == { hierarchy[k] : k \in 1 .. Len(hierarchy) }
ChildrenOf(i) == { polys[i].children[k] : k \in 1 .. Len(polys[i].children) }

\* C6: the forest identifyHoles returns has two levels: every root is a
\* solid island, every other ring is a hole hanging directly under a root,
\* and no ring hangs under a hole.
C6_DepthTwo ==
    pc = "done" =>
        /\ \A r \in Roots : ~polys[r].isHole
        /\ \A i \in 1 .. Len(polys) :
               i \notin Roots =>
                   /\ polys[i].isHole
                   /\ \E r \in Roots : i \in ChildrenOf(r)
        /\ \A i \in 1 .. Len(polys) : polys[i].isHole => polys[i].children = << >>

\* How often ring i is linked: as a root, or as a child of some poly.
RECURSIVE LinksBelow(_, _)
LinksBelow(i, p) ==
    IF p > Len(polys) THEN 0
    ELSE Count(polys[p].children, i) + LinksBelow(i, p + 1)

Links(i) == Count(hierarchy, i) + LinksBelow(i, 1)

\* C7: every ring handed to identifyHoles is linked exactly once, as a root
\* or as the child of one parent, and a child's isHole is the negation of
\* its parent's.
C7_OneParentAlternating ==
    pc = "done" =>
        /\ Len(polys) = Len(simplified)
        /\ \A k \in 1 .. Len(simplified) :
               Count([i \in 1 .. Len(polys) |-> polys[i].points], simplified[k])
                   = Count(simplified, simplified[k])
        /\ \A i \in 1 .. Len(polys) : Links(i) = 1
        /\ \A p \in 1 .. Len(polys) :
               \A c \in ChildrenOf(p) : polys[c].isHole = ~polys[p].isHole

\* Three rings nested in one another, linked as root, child and grandchild.
C7_Witness ==
    /\ pc = "done"
    /\ \E r \in Roots : \E c \in ChildrenOf(r) : ChildrenOf(c) # {}

\* C8: the outlines hold one entry for every simplified ring handed to the
\* classifier, with the ring's points unchanged.
C8_OutlinePerRing ==
    pc = "done" =>
        /\ Len(outlines) = Len(simplified)
        /\ \A k \in 1 .. Len(simplified) :
               Count([i \in 1 .. Len(outlines) |-> outlines[i].points], simplified[k])
                   = Count(simplified, simplified[k])

\* p and q in order: p can be had from q by deleting entries.
RECURSIVE IsSubsequence(_, _)
IsSubsequence(p, q) ==
    IF Len(p) = 0 THEN TRUE
    ELSE IF Len(q) = 0 THEN FALSE
    ELSE IF Head(p) = Head(q) THEN IsSubsequence(Tail(p), Tail(q))
    ELSE IsSubsequence(p, Tail(q))

\* C9: for a ring of at least 2 points and any tolerance, the result of
\* simplifyContour is an order-preserving subsequence of the ring, no
\* longer than it, at least 2 points long, and begins and ends with the
\* ring's first and last points.
C9_SubsequenceEndsKept ==
    pc = "returned" /\ Len(argPoints) >= 2 =>
        /\ IsSubsequence(retResult, argPoints)
        /\ Len(retResult) <= Len(argPoints)
        /\ Len(retResult) >= 2
        /\ retResult[1] = argPoints[1]
        /\ retResult[Len(retResult)] = argPoints[Len(argPoints)]

\* A ring of more than 2 points has lost some of them.
C9_Witness ==
    /\ pc = "returned"
    /\ Len(argPoints) > 2
    /\ Len(retResult) < Len(argPoints)

\* The input indices (0-based) of the points simplifyContour retains: all of
\* them when it returns the ring as it is, those flagged in keep[] otherwise.
Retained ==
    IF Len(argPoints) <= 2 THEN 0 .. (Len(argPoints) - 1)
    ELSE { i \in 0 .. (Len(argPoints) - 1) : retKeep[i] = 1 }

\* p is no farther than e / EpsDen from the line through a and b, or from a
\* when a = b; the distance to the line is |cross(b - a, p - a)| / |b - a|.
WithinTolerance(a, b, p, e) ==
    LET cross == (b[1] - a[1]) * (p[2] - a[2]) - (b[2] - a[2]) * (p[1] - a[1])
        abSq == (b[1] - a[1]) * (b[1] - a[1]) + (b[2] - a[2]) * (b[2] - a[2])
        apSq == (p[1] - a[1]) * (p[1] - a[1]) + (p[2] - a[2]) * (p[2] - a[2])
    IN IF a = b
       THEN EpsDen * EpsDen * apSq <= e * e
       ELSE EpsDen * EpsDen * cross * cross <= e * e * abSq

\* C10: every point simplifyContour drops lies between two consecutive
\* retained points and is within the tolerance of the line through them
\* (of the first of them when the two coincide).
C10_DroppedWithinEps ==
    pc = "returned" =>
        /\ retResult = [k \in 1 .. Len(retResult) |->
                           At(argPoints, CHOOSE i \in Retained :
                                  Cardinality({ j \in Retained : j < i }) = k - 1)]
        /\ \A i \in (0 .. (Len(argPoints) - 1)) \ Retained :
               \E s, t \in Retained :
                   /\ s < i /\ i < t
                   /\ \A m \in Retained : ~(s < m /\ m < t)
                   /\ WithinTolerance(At(argPoints, s), At(argPoints, t),
                                      At(argPoints, i), argEpsilon)

\* A closed ring (first point = last point) has kept a point between its
\* ends and lost a point that is on none of the retained points.
C10_Witness ==
    /\ pc = "returned"
    /\ argPoints[1] = argPoints[Len(argPoints)]
    /\ Len(retResult) > 2
    /\ \E i \in (0 .. (Len(argPoints) - 1)) \ Retained :
           \A k \in Retained : At(argPoints, i) # At(argPoints, k)

\* C11 as stated: with tolerance 0 the result of simplifyContour equals
\* the ring point for point.
C11_ZeroToleranceNoOp ==
    pc = "returned" /\ argEpsilon = 0 => retResult = argPoints

\* p lies on the line through a and b, or on a when a = b.
OnChord(a, b, p) == WithinTolerance(a, b, p, 0)

\* No point of the ring lies on the chord from an earlier to a later point.
NoPointOnChord(points) ==
    \A s, i, t \in 1 .. Len(points) :
        s < i /\ i < t => ~OnChord(points[s], points[t], points[i])

\* C11 amended: with tolerance 0 the points simplifyContour drops lie on the
\* line through the retained points around them, and a ring no point of
\* which lies on the chord from an earlier to a later point is returned
\* point for point.
C11_ZeroToleranceKeepsOffChord ==
    pc = "returned" /\ argEpsilon = 0 =>
        /\ \A i \in (0 .. (Len(argPoints) - 1)) \ Retained :
               \E s, t \in Retained :
                   /\ s < i /\ i < t
                   /\ \A m \in Retained : ~(s < m /\ m < t)
                   /\ OnChord(At(argPoints, s), At(argPoints, t), At(argPoints, i))
        /\ NoPointOnChord(argPoints) => retResult = argPoints

\* A ring of 4 points, none on a chord, has come back whole at tolerance 0.
C11_Witness ==
    /\ pc = "returned"
    /\ argEpsilon = 0
    /\ Len(argPoints) = 4
    /\ NoPointOnChord(argPoints)
    /\ retResult = argPoints

\* The ring is the 4 corners of an axis-aligned square of the given side,
\* from any corner, in either direction.
IsSquareRing(points, side) ==
    /\ Len(points) = 4
    /\ side >= 1
    /\ \E x0, y0 \in 0 .. MaxCoord :
           LET corners == << << x0, y0 >>, << x0 + side, y0 >>,
                             << x0 + side, y0 + side >>, << x0, y0 + side >> >>
           IN \E k \in 0 .. 3 :
                  \/ points = [i \in 1 .. 4 |-> corners[((k + i - 1) % 4) + 1]]
                  \/ points = [i \in 1 .. 4 |-> corners[((k + 4 - (i - 1)) % 4) + 1]]

\* C12 as stated: the 4 corners of an axis-aligned square with integer
\* corners come back unchanged for every tolerance below 1.
C12_SquareKeptBelowOne ==
    pc = "returned" /\ argEpsilon < EpsDen =>
        \A side \in 1 .. MaxCoord :
            IsSquareRing(argPoints, side) => retResult = argPoints

\* C12 amended: the 4 corners of a square of side s come back unchanged for
\* every tolerance up to 0.7 * s, just under s / sqrt(2), the distance of a
\* corner from the diagonal of the square.
C12_SquareKeptBelowHalfDiagonal ==
    pc = "returned" =>
        \A side \in 1 .. MaxCoord :
            IsSquareRing(argPoints, side) /\ 10 * argEpsilon <= 7 * EpsDen * side
            => retResult = argPoints

\* A square ring has come back unchanged at a tolerance above 0.
C12_Witness ==
    /\ pc = "returned"
    /\ argEpsilon > 0
    /\ \E side \in 1 .. MaxCoord : IsSquareRing(argPoints, side)
    /\ retResult = argPoints

\* t clamped to [0, 255]: min(max(t, 0), 255).
Clamped(t) == IF t < 0 THEN 0 ELSE IF t > 255 THEN 255 ELSE t

\* C13: for every integer threshold t of a request, the threshold handed to
\* the binarizer, and the one echoed in the response where it is echoed,
\* is t clamped to [0, 255].
C13_ThresholdClamped ==
    pc \in { "responded", "failed" } /\ reqThreshold # << >> =>
        /\ threshold = Clamped(reqThreshold[1])
        /\ "threshold" \in DOMAIN response =>
               response.threshold = Clamped(reqThreshold[1])

\* C14: whenever the core fails, in every variant, the response is an error
\* payload that carries the failure message and a timestamp.
C14_ErrorPayloadStamped ==
    pc = "failed" =>
        /\ response.success = FALSE
        /\ "error" \in DOMAIN response
        /\ response.error \in Messages
        /\ "timestamp" \in DOMAIN response

\* p lies in the interior of the square ring sq (corners sq[1] and sq[3]).
StrictlyInside(p, sq) ==
    /\ sq[1][1] < p[1] /\ p[1] < sq[3][1]
    /\ sq[1][2] < p[2] /\ p[2] < sq[3][2]

\* No ring's first vertex lies inside another ring.
NoContainment ==
    \A i, j \in 1 .. Len(simplified) :
        i # j => ~StrictlyInside(simplified[i][1], simplified[j])

\* C15: n rings none of which has its first vertex inside another come back
\* as n roots without children and with isHole = false, and the handler
\* emits n meshes and n outlines.
C15_DisjointRingsAllRoots ==
    pc = "done" /\ NoContainment =>
        /\ Len(hierarchy) = Len(simplified)
        /\ Cardinality(Roots) = Len(simplified)
        /\ \A i \in 1 .. Len(polys) :
               polys[i].children = << >> /\ polys[i].isHole = FALSE
        /\ Len(meshes) = Len(simplified)
        /\ Len(outlines) = Len(simplified)
        /\ \A k \in 1 .. Len(outlines) : outlines[k].isHole = FALSE

\* Three rings without containment have been classified and assembled.
C15_Witness ==
    /\ pc = "done"
    /\ Len(simplified) = 3
    /\ NoContainment
    /\ Len(meshes) = 3

\* The ink of the canvas is exactly the filled rectangle of w x h cells
\* with its top-left cell at (x0, y0).
InkIsRectangle(x0, y0, w, h) ==
    Ink = { << x, y >> \in (0 .. (GridW - 1)) \X (0 .. (GridH - 1)) :
              x0 <= x /\ x < x0 + w /\ y0 <= y /\ y < y0 + h }

\* C16: when the ink is exactly a filled w x h rectangle at (x0, y0), the
\* greedy mesher emits the one run {x0, y0, w, h} and the run extractor
\* emits h runs {x0, y, w, 1}, one for each row y0 .. y0 + h - 1.  The ink
\* is such a rectangle exactly when it fills its bounding box.
C16_FilledRectangle ==
    LET ink == Ink
        x0 == CHOOSE x \in 0 .. (GridW - 1) :
                  (\E c \in ink : c[1] = x) /\ (\A c \in ink : x <= c[1])
        y0 == CHOOSE y \in 0 .. (GridH - 1) :
                  (\E c \in ink : c[2] = y) /\ (\A c \in ink : y <= c[2])
        w == 1 + (CHOOSE x \in 0 .. (GridW - 1) :
                      (\E c \in ink : c[1] = x) /\ (\A c \in ink : x >= c[1])) - x0
        h == 1 + (CHOOSE y \in 0 .. (GridH - 1) :
                      (\E c \in ink : c[2] = y) /\ (\A c \in ink : y >= c[2])) - y0
    IN (pc \in { "greedy", "runs" } /\ ink # {} /\ Cardinality(ink) = w * h) =>
           /\ InkIsRectangle(x0, y0, w, h)
           /\ pc = "greedy" =>
                  bars = << [x |-> x0, y |-> y0, width |-> w, height |-> h] >>
           /\ pc = "runs" =>
                  bars = [k \in 1 .. h |->
                             [x |-> x0, y |-> y0 + k - 1, width |-> w, height |-> 1]]

\* The greedy mesher has answered for a rectangle of 2 x 2 cells or more
\* that does not fill the canvas.
C16_Witness ==
    /\ pc = "greedy"
    /\ \E x0 \in 0 .. (GridW - 1), y0 \in 0 .. (GridH - 1) :
           \E w \in 2 .. (GridW - x0), h \in 2 .. (GridH - y0) :
               /\ w * h < NCells
               /\ InkIsRectangle(x0, y0, w, h)
    /\ Len(bars) = 1

\* pixelOnCount of a binarized grid.
InkCount(g) == Cardinality({ i \in Cells : g[i] = 1 })

\* C17: a pixel whose mean brightness equals the threshold is background,
\* and when the same pixel buffer is binarized at a higher threshold every
\* ink pixel stays ink, so the ink count does not fall.
C17_BinarizerMonotonic ==
    /\ [](pc = "scan" =>
            \A i \in Cells : data[i] = 3 * threshold => grid[i] = 0)
    /\ [][(pc = "scan" /\ pc' = "scan" /\ threshold < threshold') =>
            /\ \A i \in Cells : grid[i] = 1 => grid'[i] = 1
            /\ InkCount(grid) <= InkCount(grid')]_vars

\* The buffer is binarized at the highest threshold: a pixel of mean
\* brightness DefaultThreshold is ink now, beside a black one.
C17_Witness ==
    /\ pc = "scan"
    /\ idx = 0
    /\ threshold = DefaultThreshold + 1
    /\ \E i, j \in Cells :
           /\ data[i] = 3 * DefaultThreshold /\ grid[i] = 1
           /\ data[j] = 0 /\ grid[j] = 1

\* C18: at threshold 0 no pixel is ink, the run extractor and the greedy
\* mesher emit no run, and the contour pipeline emits no mesh and no outline.
C18_ThresholdZeroEmpty ==
    threshold = 0 =>
        /\ pc \in { "scan", "trace", "simplified", "done" } =>
               \A i \in Cells : grid[i] = 0
        /\ pc \in { "runs", "greedy" } => bars = << >>
        /\ pc = "done" => meshes = << >> /\ outlines = << >>

\* The contour pipeline has finished at threshold 0 on a canvas with a block
\* of black pixels.
C18_Witness ==
    /\ threshold = 0
    /\ pc = "done"
    /\ \A i \in 0 .. (BinCells - 1) : data[i] = 0

\* The polys sorted before poly i whose ring holds poly i's first vertex.
Holders(i) ==
    { j \in 1 .. (i - 1) : StrictlyInside(polys[i].points[1], polys[j].points) }

\* C19: a ring whose first vertex lies inside several earlier-sorted rings
\* is attached to the first of them in sort order.
C19_FirstMatchParent ==
    pc = "done" =>
        \A i \in 1 .. Len(polys) :
            Holders(i) # {} =>
                \E p \in Holders(i) :
                    /\ \A j \in Holders(i) : p <= j
                    /\ i \in ChildrenOf(p)

\* The ink cells one 8-connected step from a cell of S, and S itself.
Spread(S) ==
    S \cup { c \in Ink : \E q \in S : Abs(c[1] - q[1]) <= 1 /\ Abs(c[2] - q[2]) <= 1 }

\* The 8-connected ink region of the cell c.
RECURSIVE RegionFrom(_)
RegionFrom(S) == IF Spread(S) = S THEN S ELSE RegionFrom(Spread(S))
Region(c) == RegionFrom({ c })

\* An interior cell of the ink: its 8 neighbours are all ink.
Interior(c) ==
    \A ddx, ddy \in { -1, 0, 1 } : << c[1] + ddx, c[2] + ddy >> \in Ink

\* C20: findContours returns at most one ring for an 8-connected ink region,
\* and no ring it returns is traced from an interior cell of a region.
C20_OneRingPerRegion ==
    /\ \A k, m \in 1 .. Len(contours) :
           k # m => contours[m][1] \notin Region(contours[k][1])
    /\ \A k \in 1 .. Len(contours) : ~Interior(contours[k][1])

\* The row under the rectangle b is off the canvas or holds a background
\* cell within the width of b.
HeightCannotGrow(b) ==
    \/ b.y + b.height >= GridH
    \/ \E k \in 0 .. (b.width - 1) : ~IsInk(b.x + k, b.y + b.height)

\* C21 as stated: for every rectangle the greedy mesher emits, the cell right
\* of its top row is background of the grid as binarized or off the canvas,
\* and the row under it holds a background cell or is off the canvas.
C21_GreedyMaximal ==
    pc = "greedy" =>
        \A k \in 1 .. Len(bars) :
            /\ bars[k].x + bars[k].width >= GridW
                   \/ ~IsInk(bars[k].x + bars[k].width, bars[k].y)
            /\ HeightCannotGrow(bars[k])

\* C21 amended: the cell right of the top row is background, off the canvas
\* or inside a rectangle emitted earlier; the row under the rectangle holds
\* a background cell or is off the canvas.
C21_GreedyMaximalOverRemainingInk ==
    pc = "greedy" =>
        \A k \in 1 .. Len(bars) :
            /\ \/ bars[k].x + bars[k].width >= GridW
               \/ ~IsInk(bars[k].x + bars[k].width, bars[k].y)
               \/ \E m \in 1 .. (k - 1) :
                      << bars[k].x + bars[k].width, bars[k].y >> \in Covered(bars[m])
            /\ HeightCannotGrow(bars[k])

\* A rectangle stops at ink that an earlier, taller rectangle has taken, and
\* a rectangle of two rows or more stops above a background cell.
C21_Witness ==
    /\ pc = "greedy"
    /\ \E k \in 1 .. Len(bars) :
           /\ bars[k].x + bars[k].width < GridW
           /\ IsInk(bars[k].x + bars[k].width, bars[k].y)
    /\ \E k \in 1 .. Len(bars) :
           bars[k].height >= 2 /\ bars[k].y + bars[k].height < GridH

\* The rings of the island of the r-th root: the root's, then its children's.
IslandRings(r) ==
    LET poly == polys[hierarchy[r]]
    IN << poly.points >> \o [k \in 1 .. Len(poly.children) |-> polys[poly.children[k]].points]

\* The points of a list of rings, one ring after the other.
RECURSIVE Chain(_)
Chain(rings) == IF Len(rings) = 0 THEN << >> ELSE Head(rings) \o Chain(Tail(rings))

\* Two numbers per point: x, y.
Coordinates(points) ==
    [i \in 1 .. (2 * Len(points)) |->
        IF i % 2 = 1 THEN points[(i + 1) \div 2][1] ELSE points[i \div 2][2]]

\* The number of rings of the islands before the r-th.
RECURSIVE RingsBefore(_)
RingsBefore(r) == IF r = 1 THEN 0 ELSE RingsBefore(r - 1) + Len(IslandRings(r - 1))

\* C22: for every root the mesh's vertices are the root's points followed by
\* each child's in children order, the k-th hole index is the count of the
\* points before the k-th child, and the outlines appended for the root are
\* the root (isHole = false) and its children (isHole = true) in that
\* order, so that their points chained give the mesh's vertices.
C22_AssemblerOrdering ==
    pc = "done" =>
        /\ Len(meshes) = Len(hierarchy)
        /\ \A r \in 1 .. Len(hierarchy) :
               LET rings == IslandRings(r)
                   first == RingsBefore(r)
               IN /\ meshes[r].vertices = Coordinates(Chain(rings))
                  /\ meshes[r].holeIndices =
                         [k \in 1 .. (Len(rings) - 1) |-> Len(Chain(SubSeq(rings, 1, k)))]
                  /\ first + Len(rings) <= Len(outlines)
                  /\ \A k \in 1 .. Len(rings) :
                         /\ outlines[first + k].points = rings[k]
                         /\ outlines[first + k].isHole = (k > 1)
                  /\ Coordinates(Chain([k \in 1 .. Len(rings) |-> outlines[first + k].points]))
                         = meshes[r].vertices

\* A root with two holes has been assembled.
C22_Witness ==
    /\ pc = "done"
    /\ \E r \in 1 .. Len(hierarchy) :
           /\ Len(polys[hierarchy[r]].children) = 2
           /\ Len(meshes[r].holeIndices) = 2

\* The flat index of a point of a ring.
CellOf(p) == p[2] * GridW + p[1]

\* C23: during findContours every cell is marked visited when it is pushed
\* onto a ring, a mark is never cleared, a trace starts on an ink cell that is not
\* marked, at or behind the scan position, and the scan resumes behind the
\* start cell of the trace that has ended, that cell marked; so a cell starts
\* at most one trace and there are no more traces than ink cells.
C23_VisitedMarking ==
    [][/\ Len(contour') > Len(contour) =>
              visited'[CellOf(contour'[Len(contour')])] = 1
       /\ \A i \in Cells : visited[i] = 1 => visited'[i] = 1
       /\ (pc = "scan" /\ pc' = "trace") =>
              /\ CellOf(start') = idx'
              /\ idx' >= idx
              /\ grid[idx'] = 1
              /\ visited[idx'] = 0
       /\ (pc = "trace" /\ pc' = "scan") =>
              /\ idx' > idx
              /\ idx = CellOf(start)
              /\ visited'[idx] = 1
              /\ contours' \in { contours, Append(contours, contour') }]_vars

\* A later trace begins after an earlier one has marked three cells or more.
C23_Witness ==
    /\ pc = "trace"
    /\ contour = << >>
    /\ idx > 0
    /\ Cardinality({ i \in Cells : visited[i] = 1 }) >= 3

====
